---- MODULE Spec2Model ----
(***************************************************************************)
(* Model of the IconText widget of iced_aw (src/native/icon_text.rs).      *)
(*                                                                         *)
(* An IconText is a builder-configured value with eight fields.  The host  *)
(* toolkit asks it for its width/height policy, for a layout node, for one *)
(* fill_text primitive per draw, and for its contribution to the layout    *)
(* hash.  The host's types (Length, Limits, Rectangle, the renderer) are   *)
(* modelled as far as the widget calls them.                               *)
(*                                                                         *)
(* Numbers.  u16 values are integers.  f32 values are fixed-point numbers  *)
(* counted in half units, so that halving a whole number is exact as it is *)
(* in f32: the f32 value 12.5 is the integer 25.  f32::INFINITY is a       *)
(* sentinel larger than every other value of the model.                    *)
(***************************************************************************)
EXTENDS Integers, Sequences, FiniteSets, TLC

(* Total number of operations performed on the widgets in one behaviour. *)
MaxOps == 4

---------------------------------------------------------------------------
(* Option<T>: None is the empty tuple, Some(v) the one-element tuple. *)
None == <<>>
Some(v) == <<v>>
unwrap_or(opt, default) == IF opt = None THEN default ELSE opt[1]

(* f32::from(u16): a whole number as an f32. *)
F32From(n) == 2 * n
INFINITY == 1000000
F32Min(a, b) == IF a <= b THEN a ELSE b
F32Max(a, b) == IF a >= b THEN a ELSE b

(* iced_native::Length *)
Fill == <<"Fill">>
FillPortion(n) == <<"FillPortion", n>>
Shrink == <<"Shrink">>
Units(n) == <<"Units", n>>

(* crate::graphics::icons::ICON_FONT *)
ICON_FONT == "Icons"

(* The values the operations are called with. *)
Ids == {1, 2}
Contents == {"a", "ab"}
Sizes == {12, 20}
Colors == {"red", "blue"}
StyleColors == {"black", "red"}
Fonts == {"Default", ICON_FONT}
Lengths == {Shrink, Fill, FillPortion(2), Units(30)}
Horizontals == {"Left", "Center", "Right"}
Verticals == {"Top", "Center", "Bottom"}

---------------------------------------------------------------------------
(* new, with a width policy of Fill instead of Shrink. *)
new_fill(label) ==
    [content |-> label,
     size |-> None,
     color |-> None,
     font |-> None,
     width |-> Fill,
     height |-> Shrink,
     horizontal_alignment |-> "Center",
     vertical_alignment |-> "Center"]

(* IconText::new *)
new(label) ==
    [content |-> label,
     size |-> None,
     color |-> None,
     font |-> None,
     width |-> Shrink,
     height |-> Shrink,
     horizontal_alignment |-> "Center",
     vertical_alignment |-> "Center"]

(* size, keeping a size that is already set. *)
size_first_wins(self, s) == IF self.size = None THEN [self EXCEPT !.size = Some(s)] ELSE self

(* width, writing the height policy as well. *)
width_both(self, w) == [self EXCEPT !.width = w, !.height = w]

(* The builder methods: each takes self by value and returns it. *)
size(self, s) == [self EXCEPT !.size = Some(s)]
color(self, c) == [self EXCEPT !.color = Some(c)]
font(self, f) == [self EXCEPT !.font = Some(f)]
width(self, w) == [self EXCEPT !.width = w]
height(self, h) == [self EXCEPT !.height = h]
horizontal_alignment(self, a) == [self EXCEPT !.horizontal_alignment = a]
vertical_alignment(self, a) == [self EXCEPT !.vertical_alignment = a]

(* Widget::width and Widget::height *)
Widget_width(self) == self.width
Widget_height(self) == self.height

(* clone, leaving the colour of the copy unset. *)
clone_no_color(self) == [self EXCEPT !.color = None]

(* Clone for IconText *)
clone(self) ==
    [content |-> self.content,
     size |-> self.size,
     color |-> self.color,
     font |-> self.font,
     width |-> self.width,
     height |-> self.height,
     horizontal_alignment |-> self.horizontal_alignment,
     vertical_alignment |-> self.vertical_alignment]

---------------------------------------------------------------------------
(* iced_native::layout::Limits as layout uses it: a record of three sizes,  *)
(* min, max and fill, each a pair <<width, height>> of f32.                 *)
LimitsNew(min, max) == [min |-> min, max |-> max, fill |-> <<INFINITY, INFINITY>>]

(* One axis (k = 1 width, k = 2 height) of Limits::width / Limits::height. *)
LimitsAxis(l, k, len) ==
    CASE len = Shrink ->
           [l EXCEPT !.fill[k] = l.min[k]]
      [] len[1] \in {"Fill", "FillPortion"} ->
           [l EXCEPT !.fill[k] = F32Min(l.fill[k], l.max[k])]
      [] len[1] = "Units" ->
           LET n == F32Max(F32Min(F32From(len[2]), l.max[k]), l.min[k])
           IN  [l EXCEPT !.min[k] = n, !.max[k] = n, !.fill[k] = n]

LimitsWidth(l, len) == LimitsAxis(l, 1, len)
LimitsHeight(l, len) == LimitsAxis(l, 2, len)
LimitsMax(l) == l.max
LimitsResolve(l, intrinsic) ==
    <<F32Max(F32Min(intrinsic[1], l.max[1]), l.fill[1]),
      F32Max(F32Min(intrinsic[2], l.max[2]), l.fill[2])>>

(* The renderer's measurement of a text: every glyph of the icon font is    *)
(* `size` wide and every glyph of the default font half of that; a text     *)
(* wider than the bounds wraps to a second line.                            *)
Measure(content, sz, fnt, bounds) ==
    LET advance == IF fnt = ICON_FONT THEN F32From(sz) ELSE sz
        w == Len(content) * advance
    IN  IF w <= bounds[1]
        THEN <<w, F32From(sz)>>
        ELSE <<bounds[1], F32From(sz) + F32From(sz)>>

(* The arguments layout passes to renderer.measure. *)
layout_measure(self, renderer, lim) ==
    LET limits == LimitsHeight(LimitsWidth(lim, self.width), self.height)
    IN  [content |-> self.content,
         size |-> unwrap_or(self.size, renderer.default_size),
         font |-> unwrap_or(self.font, renderer.default_font),
         bounds |-> LimitsMax(limits)]

(* layout::Node::new *)
NodeNew(sz) == [size |-> sz, children |-> <<>>]

(* layout, resolving against the limits as given instead of the narrowed ones. *)
layout_unnarrowed(self, renderer, lim) ==
    LET m == layout_measure(self, renderer, lim)
    IN  NodeNew(LimitsResolve(lim, Measure(m.content, m.size, m.font, m.bounds)))

(* IconText::layout *)
layout(self, renderer, lim) ==
    LET limits == LimitsHeight(LimitsWidth(lim, self.width), self.height)
        m == layout_measure(self, renderer, lim)
        wh == Measure(m.content, m.size, m.font, m.bounds)
    IN  NodeNew(LimitsResolve(limits, wh))

---------------------------------------------------------------------------
(* Rectangle, Rectangle::center_x and Rectangle::center_y *)
Rectangle(x, y, w, h) == [x |-> x, y |-> y, width |-> w, height |-> h]
(* center_x, without the halving. *)
center_x_full(r) == r.x + r.width
center_x(r) == r.x + r.width \div 2
center_y(r) == r.y + r.height \div 2

(* The anchor draw computes from the bounds and the alignments. *)
draw_x(self, bounds) ==
    CASE self.horizontal_alignment = "Left" -> bounds.x
      [] self.horizontal_alignment = "Center" -> center_x(bounds)
      [] self.horizontal_alignment = "Right" -> bounds.x + bounds.width

draw_y(self, bounds) ==
    CASE self.vertical_alignment = "Top" -> bounds.y
      [] self.vertical_alignment = "Center" -> center_y(bounds)
      [] self.vertical_alignment = "Bottom" -> bounds.y + bounds.height

(* The `size` draw passes on is f32::from(self.size): the conversion of the *)
(* stored option, with no fallback to renderer.default_size().  For a size  *)
(* that was set it is that size; for an unset size the source gives no      *)
(* value, and `unset` is whichever value the primitive ends up with.        *)
draw_size(self, unset) == IF self.size = None THEN unset ELSE F32From(self.size[1])
UnsetSizes == {F32From(s) : s \in Sizes \cup {0}}

(* draw_text, always painting in the style's text colour. *)
draw_text_style_color(self, style, bounds, unset) ==
    [content |-> self.content,
     bounds |-> [bounds EXCEPT !.x = draw_x(self, bounds), !.y = draw_y(self, bounds)],
     size |-> draw_size(self, unset),
     color |-> style.text_color,
     font |-> unwrap_or(self.font, ICON_FONT),
     horizontal_alignment |-> self.horizontal_alignment,
     vertical_alignment |-> self.vertical_alignment]

(* The iced_native::text::Text draw builds. *)
draw_text(self, style, bounds, unset) ==
    [content |-> self.content,
     bounds |-> [bounds EXCEPT !.x = draw_x(self, bounds), !.y = draw_y(self, bounds)],
     size |-> draw_size(self, unset),
     color |-> unwrap_or(self.color, style.text_color),
     font |-> unwrap_or(self.font, ICON_FONT),
     horizontal_alignment |-> self.horizontal_alignment,
     vertical_alignment |-> self.vertical_alignment]

(* IconText::draw: one fill_text on the renderer, whose primitives are out. *)
draw(self, out, style, bounds, unset) ==
    Append(out, draw_text(self, style, bounds, unset))

---------------------------------------------------------------------------
(* What the Hash implementations write to the hasher: a string writes its *)
(* bytes and the terminator 0xff, an Option its discriminant and its      *)
(* payload, a Length its variant's index and its payload.                 *)
HashStr(str) == <<str, 255>>
HashOptionU16(opt) == IF opt = None THEN <<0>> ELSE <<1, opt[1]>>
HashLength(len) ==
    CASE len[1] = "Fill" -> <<0>>
      [] len[1] = "FillPortion" -> <<1, len[2]>>
      [] len[1] = "Shrink" -> <<2>>
      [] len[1] = "Units" -> <<3, len[2]>>

(* hash_layout, hashing the horizontal alignment as well. *)
hash_layout_alignment(self, state) ==
    state \o <<"IconText::Marker">> \o HashStr(self.content)
          \o HashOptionU16(self.size)
          \o HashLength(self.width)
          \o HashLength(self.height)
          \o <<self.horizontal_alignment>>

(* IconText::hash_layout: the writes appended to the hasher's state. *)
hash_layout(self, state) ==
    state \o <<"IconText::Marker">> \o HashStr(self.content)
          \o HashOptionU16(self.size)
          \o HashLength(self.width)
          \o HashLength(self.height)

---------------------------------------------------------------------------
VARIABLES
    renderer,  \* the host's renderer: its default_size and default_font
    icon,      \* the IconText values that exist, by instance
    calls,     \* per instance: how it was made, and each builder's arguments so far
    last,      \* the operation performed last, its instance, and a clone's source
    lay,       \* the last layout call: its inputs, its measure call, its node
    output,    \* the primitives the renderer was given by fill_text
    drawn,     \* the last draw call: its inputs
    hashed,    \* the last two hash_layout calls: the value and the hasher
    ret,       \* what the last call of the policy accessors returned
    ops        \* the number of operations performed

vars == <<renderer, icon, calls, last, lay, output, drawn, hashed, ret, ops>>

(* Two hosts: one whose default font is the toolkit's, one whose default   *)
(* font is the icon font.                                                *)
Renderers ==
    {[default_size |-> 12, default_font |-> "Default"],
     [default_size |-> 20, default_font |-> ICON_FONT]}
Styles == [text_color : StyleColors]
InputLimits ==
    {LimitsNew(<<0, 0>>, <<INFINITY, INFINITY>>),
     LimitsNew(<<0, 0>>, <<F32From(30), F32From(30)>>),
     LimitsNew(<<F32From(10), F32From(10)>>, <<F32From(100), F32From(80)>>)}
InputBounds ==
    {Rectangle(F32From(10), F32From(20), F32From(100), F32From(50)),
     Rectangle(0, 0, F32From(30), F32From(25))}

NoCalls(label) ==
    [origin |-> "new", label |-> label,
     size |-> <<>>, color |-> <<>>, font |-> <<>>, width |-> <<>>,
     height |-> <<>>, horizontal_alignment |-> <<>>, vertical_alignment |-> <<>>]

Init ==
    /\ renderer \in Renderers
    /\ icon = <<>>
    /\ calls = <<>>
    /\ last = [op |-> "none", id |-> 0, src |-> 0]
    /\ lay = None
    /\ output = <<>>
    /\ drawn = None
    /\ hashed = <<>>
    /\ ret = None
    /\ ops = 0

Exists(i) == i \in DOMAIN icon
Put(f, i, v) == (i :> v) @@ f
LastTwo(q) == IF Len(q) <= 2 THEN q ELSE Tail(q)
Step(op, i, src) ==
    /\ ops < MaxOps
    /\ ops' = ops + 1
    /\ last' = [op |-> op, id |-> i, src |-> src]

(* let icon = IconText::new(label) *)
New(i, label) ==
    /\ ~Exists(i)
    /\ Step("new", i, i)
    /\ icon' = Put(icon, i, new(label))
    /\ calls' = Put(calls, i, NoCalls(label))
    /\ UNCHANGED <<renderer, lay, output, drawn, hashed, ret>>

(* let copy = icon.clone() *)
Clone(i, j) ==
    /\ Exists(i)
    /\ ~Exists(j)
    /\ Step("clone", j, i)
    /\ icon' = Put(icon, j, clone(icon[i]))
    /\ calls' = Put(calls, j, [calls[i] EXCEPT !.origin = "clone"])
    /\ UNCHANGED <<renderer, lay, output, drawn, hashed, ret>>

(* icon = icon.size(s), and likewise for the other builder methods *)
Build(op, i, value, arg) ==
    /\ Exists(i)
    /\ Step(op, i, i)
    /\ icon' = [icon EXCEPT ![i] = value]
    /\ calls' = [calls EXCEPT ![i][op] = Append(@, arg)]
    /\ UNCHANGED <<renderer, lay, output, drawn, hashed, ret>>

Size(i, s) == Exists(i) /\ Build("size", i, size(icon[i], s), s)
Color(i, c) == Exists(i) /\ Build("color", i, color(icon[i], c), c)
Font(i, f) == Exists(i) /\ Build("font", i, font(icon[i], f), f)
Width(i, w) == Exists(i) /\ Build("width", i, width(icon[i], w), w)
Height(i, h) == Exists(i) /\ Build("height", i, height(icon[i], h), h)
HorizontalAlignment(i, a) ==
    Exists(i) /\ Build("horizontal_alignment", i, horizontal_alignment(icon[i], a), a)
VerticalAlignment(i, a) ==
    Exists(i) /\ Build("vertical_alignment", i, vertical_alignment(icon[i], a), a)

(* Widget::width(&icon) and Widget::height(&icon) *)
Policy(i) ==
    /\ Exists(i)
    /\ Step("policy", i, i)
    /\ ret' = Some([width |-> Widget_width(icon[i]), height |-> Widget_height(icon[i])])
    /\ UNCHANGED <<renderer, icon, calls, lay, output, drawn, hashed>>

(* icon.layout(&renderer, &limits) *)
Layout(i, lim) ==
    /\ Exists(i)
    /\ Step("layout", i, i)
    /\ lay' = Some([self |-> icon[i],
                    limits |-> lim,
                    measured |-> layout_measure(icon[i], renderer, lim),
                    node |-> layout(icon[i], renderer, lim)])
    /\ UNCHANGED <<renderer, icon, calls, output, drawn, hashed, ret>>

(* icon.draw(&mut renderer, &style, layout, cursor_position, &viewport) *)
Draw(i, style, bounds, unset) ==
    /\ Exists(i)
    /\ Step("draw", i, i)
    /\ output' = draw(icon[i], output, style, bounds, unset)
    /\ drawn' = Some([self |-> icon[i], style |-> style, bounds |-> bounds])
    /\ UNCHANGED <<renderer, icon, calls, lay, hashed, ret>>

(* icon.hash_layout(&mut hasher), on a new hasher *)
HashLayout(i) ==
    /\ Exists(i)
    /\ Step("hash_layout", i, i)
    /\ hashed' = LastTwo(Append(hashed, [self |-> icon[i],
                                          state |-> hash_layout(icon[i], <<>>)]))
    /\ UNCHANGED <<renderer, icon, calls, lay, output, drawn, ret>>

(* The builder methods, called on instance i. *)
Builders(i) ==
    \/ \E s \in Sizes : Size(i, s)
    \/ \E c \in Colors : Color(i, c)
    \/ \E f \in Fonts : Font(i, f)
    \/ \E w \in Lengths : Width(i, w)
    \/ \E h \in Lengths : Height(i, h)
    \/ \E a \in Horizontals : HorizontalAlignment(i, a)
    \/ \E a \in Verticals : VerticalAlignment(i, a)

(* One widget in a frame: built, then laid out and drawn by the host. *)
Next ==
    \/ \E label \in Contents : New(1, label)
    \/ Builders(1)
    \/ \E lim \in InputLimits : Layout(1, lim)
    \/ \E style \in Styles, bounds \in InputBounds, unset \in UnsetSizes :
          Draw(1, style, bounds, unset)

Spec == Init /\ [][Next]_vars

(* One widget and the layout pass. *)
NextLayout ==
    \/ \E label \in Contents : New(1, label)
    \/ Builders(1)
    \/ \E lim \in InputLimits : Layout(1, lim)

SpecLayout == Init /\ [][NextLayout]_vars

(* One widget and the draw pass. *)
NextDraw ==
    \/ \E label \in Contents : New(1, label)
    \/ Builders(1)
    \/ \E style \in Styles, bounds \in InputBounds, unset \in UnsetSizes :
          Draw(1, style, bounds, unset)

SpecDraw == Init /\ [][NextDraw]_vars

(* Two widgets, made by new or by clone, configured, queried and hashed. *)
NextPair ==
    \/ \E i \in Ids, label \in Contents : New(i, label)
    \/ \E i, j \in Ids : Clone(i, j)
    \/ \E i \in Ids : Builders(i)
    \/ \E i \in Ids : Policy(i)
    \/ \E i \in Ids : HashLayout(i)

SpecPair == Init /\ [][NextPair]_vars

---------------------------------------------------------------------------
(* The fields of an IconText. *)
OptionFields == {"size", "color", "font"}
PlainFields == {"width", "height", "horizontal_alignment", "vertical_alignment"}
BuilderNames == OptionFields \cup PlainFields
LastOf(q) == q[Len(q)]

(* The limits layout works with: the input limits narrowed by the widget's *)
(* width and height policy.                                                *)
Narrowed(c) == LimitsHeight(LimitsWidth(c.limits, c.self.width), c.self.height)
EffectiveSize(self) == IF self.size # None THEN self.size[1] ELSE renderer.default_size
EffectiveFont(self) == IF self.font # None THEN self.font[1] ELSE renderer.default_font

---------------------------------------------------------------------------
(* C2: every draw appends exactly one primitive to the renderer's output   *)
(* and changes nothing else; the primitive's colour is the explicit colour *)
(* if one was set and the style's text colour otherwise.  No other         *)
(* operation touches the output.                                           *)
C2_DrawAppendsOne ==
    [][/\ last'.op = "draw" =>
            /\ Len(output') = Len(output) + 1
            /\ SubSeq(output', 1, Len(output)) = output
            /\ LastOf(output').color =
                  IF icon[last'.id].color # None
                  THEN icon[last'.id].color[1]
                  ELSE drawn'[1].style.text_color
            /\ UNCHANGED <<renderer, icon, calls, lay, hashed, ret>>
       /\ last'.op # "draw" => output' = output]_vars

C2_Witness ==
    /\ last.op = "draw"
    /\ Len(output) = 2
    /\ icon[1].color = Some("blue")
    /\ drawn[1].style.text_color = "red"
    /\ output[1].color = "black"
    /\ output[2].color = "blue"

(* C3: the rectangle draw passes to fill_text has the width and height of  *)
(* the layout bounds, and its x and y are the anchor the alignments pick:  *)
(* the near edge, the middle or the far edge of the bounds.                *)
C3_Anchor ==
    last.op = "draw" =>
        LET b == drawn[1].bounds
            h == drawn[1].self.horizontal_alignment
            v == drawn[1].self.vertical_alignment
            r == LastOf(output).bounds
            example == b = Rectangle(F32From(10), F32From(20), F32From(100), F32From(50))
        IN  /\ r.width = b.width
            /\ r.height = b.height
            /\ h = "Left" => r.x = b.x
            /\ h = "Center" => r.x + r.x = b.x + b.x + b.width
            /\ h = "Right" => r.x = b.x + b.width
            /\ v = "Top" => r.y = b.y
            /\ v = "Center" => r.y + r.y = b.y + b.y + b.height
            /\ v = "Bottom" => r.y = b.y + b.height
            /\ example /\ h = "Left" /\ v = "Top" =>
                  r.x = F32From(10) /\ r.y = F32From(20)
            /\ example /\ h = "Center" /\ v = "Center" =>
                  r.x = F32From(60) /\ r.y = F32From(45)
            /\ example /\ h = "Right" /\ v = "Bottom" =>
                  r.x = F32From(110) /\ r.y = F32From(70)

C3_Witness ==
    /\ last.op = "draw"
    /\ drawn[1].bounds = Rectangle(0, 0, F32From(30), F32From(25))
    /\ drawn[1].self.horizontal_alignment = "Right"
    /\ drawn[1].self.vertical_alignment = "Center"
    /\ LastOf(output).bounds.x = F32From(30)
    /\ LastOf(output).bounds.y = 25

(* C4: the size draw passes to fill_text is the size layout measured with: *)
(* the explicit size if set, the renderer's default size otherwise.        *)
C4_DrawSizeAsLayout ==
    (last.op = "draw" /\ lay # None /\ lay[1].self = drawn[1].self) =>
        /\ LastOf(output).size = F32From(lay[1].measured.size)
        /\ LastOf(output).size = F32From(EffectiveSize(drawn[1].self))

(* C10: the font layout passes to measure is the font draw passes to       *)
(* fill_text for the same widget.                                          *)
C10_SameFont ==
    (last.op = "draw" /\ lay # None /\ lay[1].self = drawn[1].self) =>
        lay[1].measured.font = LastOf(output).font

---------------------------------------------------------------------------
(* The fields hash_layout is to depend on. *)
SameLayoutKey(a, b) ==
    /\ a.content = b.content
    /\ a.size = b.size
    /\ a.width = b.width
    /\ a.height = b.height

(* C5: the hasher's state after hash_layout starts with the type           *)
(* discriminator and is the same for two widgets that agree on content,    *)
(* size, width and height, whatever their colour, font and alignments;     *)
(* two widgets of different content never leave the same state.            *)
C5_HashScope ==
    \A a, b \in 1..Len(hashed) :
        LET x == hashed[a]
            y == hashed[b]
        IN  /\ x.state[1] = "IconText::Marker"
            /\ SameLayoutKey(x.self, y.self) => x.state = y.state
            /\ x.self.content # y.self.content => x.state # y.state

C5_Witness ==
    /\ Len(hashed) = 2
    /\ SameLayoutKey(hashed[1].self, hashed[2].self)
    /\ hashed[1].self.horizontal_alignment # hashed[2].self.horizontal_alignment
    /\ hashed[1].state = hashed[2].state

(* C6: new(c) has content c, Shrink for both policies, Center for both     *)
(* alignments and no size, colour or font; and a field whose builder was   *)
(* never called, on the widget or on the one it was cloned from, still has *)
(* that value.                                                             *)
C6_Defaults ==
    /\ last.op = "new" =>
          icon[last.id] = [content |-> calls[last.id].label,
                           size |-> None, color |-> None, font |-> None,
                           width |-> Shrink, height |-> Shrink,
                           horizontal_alignment |-> "Center",
                           vertical_alignment |-> "Center"]
    /\ \A i \in DOMAIN icon :
          /\ icon[i].content = calls[i].label
          /\ \A f \in OptionFields : calls[i][f] = <<>> => icon[i][f] = None
          /\ calls[i].width = <<>> => icon[i].width = Shrink
          /\ calls[i].height = <<>> => icon[i].height = Shrink
          /\ calls[i].horizontal_alignment = <<>> =>
                icon[i].horizontal_alignment = "Center"
          /\ calls[i].vertical_alignment = <<>> =>
                icon[i].vertical_alignment = "Center"

C6_Witness ==
    /\ last.op = "new"
    /\ last.id = 2
    /\ icon[2].content = "ab"
    /\ 1 \in DOMAIN icon
    /\ icon[1].size # None

(* C7: a field whose builder was called holds the argument of the last     *)
(* call, and the policy accessors return the stored width and height.      *)
C7_LastWriteWins ==
    /\ \A i \in DOMAIN icon :
          /\ \A f \in OptionFields :
                calls[i][f] # <<>> => icon[i][f] = Some(LastOf(calls[i][f]))
          /\ \A f \in PlainFields :
                calls[i][f] # <<>> => icon[i][f] = LastOf(calls[i][f])
    /\ last.op = "policy" =>
          ret = Some([width |-> icon[last.id].width, height |-> icon[last.id].height])

C7_Witness ==
    /\ 1 \in DOMAIN icon
    /\ calls[1].size = <<12, 20>>
    /\ icon[1].size = Some(20)
    /\ last.op = "policy"
    /\ ret = Some([width |-> Shrink, height |-> Shrink])

(* C8: a clone equals the value it was cloned from in all eight fields,    *)
(* and an operation on one widget leaves every other widget as it was.     *)
C8_CloneIndependent ==
    [][/\ last'.op = "clone" =>
            /\ icon'[last'.id] = icon[last'.src]
            /\ \A f \in BuilderNames \cup {"content"} :
                  icon'[last'.id][f] = icon[last'.src][f]
       /\ \A i \in DOMAIN icon : i # last'.id => icon'[i] = icon[i]]_vars

C8_Witness ==
    /\ DOMAIN icon = {1, 2}
    /\ calls[2].origin = "clone"
    /\ calls[1].origin = "new"
    /\ last.op = "color"
    /\ last.id = 2
    /\ icon[1].color = Some("red")
    /\ icon[2].color = Some("blue")

(* C9: a builder method changes no field but its own, and no operation     *)
(* changes the content or, unless it is that field's builder, a field.     *)
C9_BuilderFrame ==
    [][\A i \in DOMAIN icon :
          /\ icon'[i].content = icon[i].content
          /\ \A f \in BuilderNames :
                (last'.id # i \/ last'.op # f) => icon'[i][f] = icon[i][f]]_vars

C9_Witness ==
    /\ 1 \in DOMAIN icon
    /\ last.op = "width"
    /\ last.id = 1
    /\ icon[1].width = Units(30)
    /\ icon[1].height = Fill
    /\ icon[1].size = Some(12)

====
